---- MODULE Spec2Model ----
(***************************************************************************)
(* PettingZooGenerals (src/generals/envs/pettingzoo_generals.py): the      *)
(* episode lifecycle controller around the Generals turn engine.           *)
(* The controller's own code (reset, step) is modelled statement by        *)
(* statement.  Game, Grid, GridFactory, Replay and the reward functions    *)
(* are imported collaborators: they are modelled by the contract the       *)
(* specification gives them, nondeterministically where it is silent.      *)
(***************************************************************************)
EXTENDS Integers, Sequences, FiniteSets, TLC

VARIABLES
    agents,              \* self.agents: the list of active agent ids
    game,                \* self.game: <<>> while the attribute does not exist, else <<engine>>
    prior_observations,  \* self.prior_observations: <<>> for None, else <<mapping>>
    replay,              \* self.replay: <<>> while the attribute does not exist, else <<index into recorders>>
    recorders,           \* every Replay object constructed so far, in construction order
    rng,                 \* the grid factory's random source
    truncation,          \* self.truncation: <<>> for None, else <<N>>
    reward_fn,           \* self.reward_fn: which reward function is configured
    stepCount,           \* step calls completed since the last successful reset
    callCount,           \* reset and step calls made so far
    explicitObs,         \* for each explicit grid text, the (seed, initial observations) of the resets on it
    result,              \* what the last call did and returned
    padding,             \* self.grid_factory.padding
    obs_cache,           \* the functools.cache of observation_space: agent id -> descriptor
    act_cache,           \* the functools.cache of action_space: agent id -> descriptor
    firstSpace           \* per method and agent id, the first descriptor a query returned

vars == <<agents, game, prior_observations, replay, recorders, rng, truncation,
          reward_fn, stepCount, callCount, explicitObs, result,
          padding, obs_cache, act_cache, firstSpace>>

spaceVars == <<padding, obs_cache, act_cache, firstSpace>>

----------------------------------------------------------------------------
(* Bounds of the exploration *)

\* the number of reset and step calls a behaviour makes
MaxCalls == 4

----------------------------------------------------------------------------
(* Optional values: None / a missing attribute is <<>>, a value v is <<v>> *)

None == <<>>
Some(v) == <<v>>
IsNone(o) == Len(o) = 0
Get(o) == o[1]

EmptyMap == [a \in {} |-> 0]

----------------------------------------------------------------------------
(* Configuration *)

possible_agents == <<"A", "B">>

AgentSet(list) == {list[i] : i \in 1..Len(list)}

Actions == {"pass", "move"}

\* a joint action: a dict from some of the configured agent ids to an Action
JointActions ==
    [AgentSet(possible_agents) -> Actions]
        \cup UNION {[S -> {"pass"}] : S \in SUBSET AgentSet(possible_agents)}

RewardFns == {"WinLoseRewardFn", "ShapedRewardFn"}

Truncations == {None, Some(1), Some(2)}

GridTexts == {"mapA", "malformed"}

Seeds == {None, Some(1)}

ReplayNames == {None, Some("my_replay")}

\* the agent ids space queries are made for: the configured ones and a stranger
QueryAgents == AgentSet(possible_agents) \cup {"Z"}

\* options of reset: the keys "grid" and "replay_file", each present or not
ResetOptions == [grid : {None} \cup {Some(t) : t \in GridTexts}, replay_file : ReplayNames]

----------------------------------------------------------------------------
(* Grid and GridFactory *)

WellFormed(text) == text # "malformed"

\* Grid(text): the parsed grid of an explicit map text
Grid(text) == [layout |-> text, dims |-> <<2, 3>>]

\* np.random.default_rng(seed): seeded it is determined by the seed,
\* unseeded it takes fresh entropy, which is any state at all
default_rng(seed) ==
    IF IsNone(seed) THEN {[seed |-> s, draws |-> 0] : s \in {1, 2}}
    ELSE {[seed |-> Get(seed), draws |-> 0]}

\* GridFactory.generate(): the grid is a function of the random source, which it consumes
Generated(r) == [layout |-> IF (r.seed + r.draws) % 2 = 1 THEN "mapA" ELSE "gen2",
                 dims |-> IF (r.seed + r.draws) % 2 = 1 THEN <<2, 3>> ELSE <<3, 3>>]

Consumed(r) == [r EXCEPT !.draws = r.draws + 1]

\* the random source the factory was constructed with
FactoryRng == [seed |-> 1, draws |-> 0]

\* GridFactory.max_grid_dims
max_grid_dims == <<3, 3>>

----------------------------------------------------------------------------
(* Game: the turn engine *)

\* Game(grid, agents): a fresh engine at turn 0, nobody has won
NewGame(id, grid, agentList) ==
    [id |-> id, grid |-> grid, agents |-> agentList, time |-> 0, armies |-> 0, winner |-> None]

is_done(e) == ~IsNone(e.winner)

\* game.channels: the engine's internal board state
Channels(e) == [layout |-> e.grid.layout, armies |-> e.armies, winner |-> e.winner]

\* game.agent_observation(agent)
agent_observation(e, a) ==
    [agent |-> a, layout |-> e.grid.layout, timestep |-> e.time, armies |-> e.armies,
     status |-> IF IsNone(e.winner) THEN "playing"
                ELSE IF Get(e.winner) = a THEN "won" ELSE "lost"]

AllObservations(e) == [a \in AgentSet(e.agents) |-> agent_observation(e, a)]

Movers(actions) == {a \in DOMAIN actions : actions[a] = "move"}

\* game.step(actions): the engines the call can leave behind.  A running
\* game advances one turn, the armies grow, and a mover may capture the
\* other general.  A finished game stays finished; whether its clock still
\* runs is the engine's business.  The engine plays the entries the joint
\* action has: an agent without an entry is silently skipped.
GameStep(e, actions) ==
    IF is_done(e)
    THEN {e, [e EXCEPT !.time = e.time + 1]}
    ELSE {[e EXCEPT !.time = e.time + 1,
                    !.armies = e.armies + 1,
                    !.winner = w] : w \in {None} \cup {Some(a) : a \in Movers(actions)}}

----------------------------------------------------------------------------
(* Reward functions: pure functions of (prior_obs, prior_action, obs) *)

WinLoseRewardFn(prior_obs, prior_action, obs) ==
    IF obs.status = "won" /\ prior_obs.status # "won" THEN 1
    ELSE IF obs.status = "lost" /\ prior_obs.status # "lost" THEN -1
    ELSE 0

ShapedRewardFn(prior_obs, prior_action, obs) ==
    1 + (IF prior_action = "move" THEN 1 ELSE 0)

CallRewardFn(fn, prior_obs, prior_action, obs) ==
    IF fn = "WinLoseRewardFn" THEN WinLoseRewardFn(prior_obs, prior_action, obs)
    ELSE ShapedRewardFn(prior_obs, prior_action, obs)

----------------------------------------------------------------------------
(* Snapshots: what the controller hands to the recorder.  The engine mutates
   its channels in place, so a snapshot is either a value of its own or a
   reference into the engine that made it. *)

\* handing over self.game.channels itself: a reference into the live engine
alias(e) == [of |-> Some(e.id), value |-> Channels(e)]

\* deepcopy(self.game.channels): a value that shares nothing with the engine
deepcopy(e) == [of |-> None, value |-> Channels(e)]

\* what reading a snapshot yields while engine g (if any) is the bound one
Read(snapshot, g) ==
    IF ~IsNone(snapshot.of) /\ ~IsNone(g) /\ Get(g).id = Get(snapshot.of)
    THEN Channels(Get(g))
    ELSE snapshot.value

----------------------------------------------------------------------------
(* Replay: the recorder *)

\* Replay(name, grid, agent_data)
NewReplay(name, grid) ==
    [name |-> name, grid |-> grid, states |-> <<>>, stores |-> 0, persisted |-> <<>>]

add_state(r, snapshot) == [r EXCEPT !.states = Append(r.states, snapshot)]

\* store(): persists the sequence as it is at the call
store(r) == [r EXCEPT !.stores = r.stores + 1, !.persisted = r.states]

----------------------------------------------------------------------------
(* What a call hands back *)

\* terminated / truncated as step returns them: the bare bool the code computed
Scalar(b) == [kind |-> "bool", keys |-> {}, value |-> b]

NoFlag == [kind |-> "absent", keys |-> {}, value |-> FALSE]

NoResult == [op |-> "none", err |-> "none", grid |-> None, stepIndex |-> 0, activeAtStart |-> {},
             missing |-> {}, observations |-> EmptyMap, rewards |-> EmptyMap,
             terminated |-> NoFlag, truncated |-> NoFlag, infos |-> EmptyMap,
             calls |-> <<>>, agent |-> "", space |-> None]

\* a call that raised: it returns nothing
Raised(op, err, active, actions) ==
    [NoResult EXCEPT !.op = op, !.err = err, !.stepIndex = stepCount,
                     !.activeAtStart = active, !.missing = active \ DOMAIN actions]

----------------------------------------------------------------------------
(* PettingZooGenerals.__init__ *)

Construct ==
    /\ agents = possible_agents
    /\ game = None
    /\ prior_observations = None
    /\ replay = None
    /\ recorders = <<>>
    /\ rng = FactoryRng
    /\ truncation \in Truncations
    /\ reward_fn \in RewardFns
    /\ stepCount = 0
    /\ callCount = 0
    /\ explicitObs = [t \in GridTexts |-> {}]
    /\ result = NoResult
    /\ obs_cache = EmptyMap
    /\ act_cache = EmptyMap
    /\ firstSpace = [observation_space |-> EmptyMap, action_space |-> EmptyMap]

\* a controller whose grid factory does not pad
Init == Construct /\ padding = FALSE

\* a controller whose grid factory pads or not
InitSpaces == Construct /\ padding \in BOOLEAN

----------------------------------------------------------------------------
(* PettingZooGenerals.reset *)

\* a reset that forgets to restore the agent list
ResetAgents_Keep(current, possible) == current

\* self.agents = deepcopy(self.possible_agents)
ResetAgents(current, possible) == possible

\* a reset that seeds the factory before it looks at the options
ResetRng_Always(r, options, fresh) ==
    IF ~IsNone(options.grid) THEN fresh ELSE Consumed(fresh)

\* the random source after the grid has been determined
ResetRng(r, options, fresh) ==
    IF ~IsNone(options.grid) THEN r ELSE Consumed(fresh)

\* the grid the engine is built on
ResetGrid(options, fresh) ==
    IF ~IsNone(options.grid) THEN Grid(Get(options.grid)) ELSE Generated(fresh)

\* a reset that flushes the recording it supersedes
ResetRecorders_Flush(recs, options, grid, e) ==
    LET flushed == [i \in DOMAIN recs |->
                       IF i = Len(recs) /\ recs[i].stores = 0 THEN store(recs[i]) ELSE recs[i]]
    IN  IF ~IsNone(options.replay_file)
        THEN Append(flushed, add_state(NewReplay(Get(options.replay_file), grid), deepcopy(e)))
        ELSE flushed

\* the Replay objects after the recording branch, and what self.replay is bound to
ResetRecorders(recs, options, grid, e) ==
    IF ~IsNone(options.replay_file)
    THEN Append(recs, add_state(NewReplay(Get(options.replay_file), grid), deepcopy(e)))
    ELSE recs

\* a reset that leaves an earlier recorder bound when no recording is asked for
ResetReplay_KeepOld(rep, recs, options) ==
    IF ~IsNone(options.replay_file) THEN Some(Len(recs) + 1) ELSE rep

\* if "replay_file" in options: self.replay = Replay(...)
\* elif hasattr(self, "replay"): del self.replay
ResetReplay(rep, recs, options) ==
    IF ~IsNone(options.replay_file) THEN Some(Len(recs) + 1) ELSE None

Reset(seed, options) ==
    /\ callCount < MaxCalls
    /\ callCount' = callCount + 1
    /\ agents' = ResetAgents(agents, possible_agents)
    /\ UNCHANGED <<prior_observations, truncation, reward_fn, spaceVars>>
    /\ IF ~IsNone(options.grid) /\ ~WellFormed(Get(options.grid))
       THEN \* Grid(options["grid"]) raises
            /\ result' = [Raised("reset", "InvalidGrid", AgentSet(agents), EmptyMap)
                             EXCEPT !.grid = options.grid]
            /\ UNCHANGED <<game, replay, recorders, rng, stepCount, explicitObs>>
       ELSE \E fresh \in default_rng(seed) :
            LET grid == ResetGrid(options, fresh)
                e == NewGame(callCount + 1, grid, ResetAgents(agents, possible_agents))
                observations == [a \in AgentSet(agents') |-> agent_observation(e, a)]
                infos == [a \in AgentSet(agents') |-> EmptyMap]
            IN  /\ rng' = ResetRng(rng, options, fresh)
                /\ game' = Some(e)
                /\ recorders' = ResetRecorders(recorders, options, grid, e)
                /\ replay' = ResetReplay(replay, recorders, options)
                /\ stepCount' = 0
                /\ explicitObs' =
                       IF IsNone(options.grid) THEN explicitObs
                       ELSE [explicitObs EXCEPT ![Get(options.grid)] =
                                   @ \cup {[seed |-> seed, observations |-> observations]}]
                /\ result' = [NoResult EXCEPT !.op = "reset",
                                              !.grid = options.grid,
                                              !.activeAtStart = AgentSet(agents),
                                              !.observations = observations,
                                              !.infos = infos]

----------------------------------------------------------------------------
(* PettingZooGenerals.step *)

\* a turn limit that is off by one
Truncated_Strict(trunc, time) == IF IsNone(trunc) THEN FALSE ELSE time > Get(trunc)

\* truncated = False if self.truncation is None else self.game.time >= self.truncation
Truncated(trunc, time) == IF IsNone(trunc) THEN FALSE ELSE time >= Get(trunc)

\* the position in the agent list of the first agent the joint action has
\* no entry for, 0 when there is none: actions[agent] raises KeyError there
FirstMissing(agentList, actions) ==
    IF \E i \in 1..Len(agentList) : agentList[i] \notin DOMAIN actions
    THEN CHOOSE i \in 1..Len(agentList) :
            /\ agentList[i] \notin DOMAIN actions
            /\ \A j \in 1..(i - 1) : agentList[j] \in DOMAIN actions
    ELSE 0

\* whether the rewards are computed by the reward function (else they are 0.0)
UsesRewardFn(prior) == ~IsNone(prior)

\* the reward function invocations of one step, in the order of self.agents
RewardCalls(prior, agentList, actions, observations) ==
    IF ~UsesRewardFn(prior) THEN <<>>
    ELSE LET m == FirstMissing(agentList, actions)
             n == IF m = 0 THEN Len(agentList) ELSE m - 1
         IN  [i \in 1..n |-> [agent |-> agentList[i],
                              prior_obs |-> Get(prior)[agentList[i]],
                              prior_action |-> actions[agentList[i]],
                              obs |-> observations[agentList[i]]]]

\* the rewards dict
Rewards(fn, prior, agentList, actions, observations) ==
    IF ~UsesRewardFn(prior) THEN [a \in AgentSet(agentList) |-> 0]
    ELSE [a \in AgentSet(agentList) |->
             CallRewardFn(fn, Get(prior)[a], actions[a], observations[a])]

\* the rewards comprehension raises KeyError at actions[agent]
RewardsRaise(prior, agentList, actions) ==
    UsesRewardFn(prior) /\ FirstMissing(agentList, actions) # 0

\* a step that records the engine's channels themselves
StepAppend_Alias(recs, rep, e) ==
    IF IsNone(rep) THEN recs
    ELSE [recs EXCEPT ![Get(rep)] = add_state(@, alias(e))]

\* if hasattr(self, "replay"): self.replay.add_state(deepcopy(self.game.channels))
StepAppend(recs, rep, e) ==
    IF IsNone(rep) THEN recs
    ELSE [recs EXCEPT ![Get(rep)] = add_state(@, deepcopy(e))]

\* an episode end that retires only the agents after the first
StepAgents_Partial(agentList, terminated, truncated) ==
    IF terminated \/ truncated THEN SubSeq(agentList, 1, 1) ELSE agentList

\* if terminated or truncated: self.agents = []
StepAgents(agentList, terminated, truncated) ==
    IF terminated \/ truncated THEN <<>> ELSE agentList

\* ... and, inside the same branch, if hasattr(self, "replay"): self.replay.store()
StepStore(recs, rep, terminated, truncated) ==
    IF (terminated \/ truncated) /\ ~IsNone(rep)
    THEN [recs EXCEPT ![Get(rep)] = store(@)]
    ELSE recs

\* a step that finalizes the recording before it appends the last snapshot
StepRecord_StoreFirst(recs, rep, e, terminated, truncated) ==
    StepAppend(StepStore(recs, rep, terminated, truncated), rep, e)

\* the recorder calls of one step: the append, then the finalize
StepRecord(recs, rep, e, terminated, truncated) ==
    StepStore(StepAppend(recs, rep, e), rep, terminated, truncated)

\* a step that fills the observation cache once and never refreshes it
StepPrior_Stale(prior, observations) ==
    IF IsNone(prior) THEN Some(observations) ELSE prior

\* self.prior_observations = observations
StepPrior(prior, observations) == Some(observations)

Step(actions) ==
    /\ callCount < MaxCalls
    /\ callCount' = callCount + 1
    /\ UNCHANGED <<rng, truncation, reward_fn, explicitObs, replay, spaceVars>>
    /\ IF IsNone(game)
       THEN \* self.game does not exist yet
            /\ result' = Raised("step", "AttributeError", AgentSet(agents), actions)
            /\ UNCHANGED <<agents, game, prior_observations, recorders, stepCount>>
       ELSE \E e \in GameStep(Get(game), actions) :
           LET observations == AllObservations(e)
               infos == [a \in AgentSet(e.agents) |-> [is_done |-> is_done(e)]]
               truncated == Truncated(truncation, e.time)
               terminated == is_done(e)
           IN  /\ game' = Some(e)
               /\ IF RewardsRaise(prior_observations, agents, actions)
                  THEN /\ result' =
                            [Raised("step", "KeyError", AgentSet(agents), actions)
                               EXCEPT !.calls = RewardCalls(prior_observations, agents,
                                                            actions, observations)]
                       /\ UNCHANGED <<agents, prior_observations, recorders, stepCount>>
                  ELSE /\ recorders' = StepRecord(recorders, replay, e, terminated, truncated)
                       /\ agents' = StepAgents(agents, terminated, truncated)
                       /\ prior_observations' = StepPrior(prior_observations, observations)
                       /\ stepCount' = stepCount + 1
                       /\ result' =
                            [op |-> "step", err |-> "none", grid |-> None,
                             agent |-> "", space |-> None,
                             stepIndex |-> stepCount,
                             activeAtStart |-> AgentSet(agents),
                             missing |-> AgentSet(agents) \ DOMAIN actions,
                             observations |-> observations,
                             rewards |-> Rewards(reward_fn, prior_observations, agents,
                                                 actions, observations),
                             terminated |-> Scalar(terminated),
                             truncated |-> Scalar(truncated),
                             infos |-> infos,
                             calls |-> RewardCalls(prior_observations, agents,
                                                   actions, observations)]

----------------------------------------------------------------------------
(* PettingZooGenerals.observation_space, PettingZooGenerals.action_space *)

\* a partial map with one more entry
Put(map, key, value) ==
    [k \in DOMAIN map \cup {key} |-> IF k = key THEN value ELSE map[k]]

\* a memo that never answers from its store
CacheHit_Never(cache, agent) == FALSE

\* @functools.cache: a call with an argument it has returned for is answered from the cache
CacheHit(cache, agent) == agent \in DOMAIN cache

\* a query that accepts any agent id
KnownAgent_Any(agent) == TRUE

\* assert agent in self.possible_agents
KnownAgent(agent) == agent \in AgentSet(possible_agents)

\* dims = max_grid_dims if self.grid_factory.padding else self.game.grid_dims;
\* the latter needs self.game
DimsRaise(pad, g) == ~pad /\ IsNone(g)

SpaceDims(pad, g) == IF pad THEN max_grid_dims ELSE Get(g).grid.dims

\* the spaces.Dict of observation_space: the grid-shaped entries and the scalar bounds
ObservationSpace(dims) ==
    [shape |-> dims, armies |-> 100000, owned_land_count |-> dims[1] * dims[2],
     owned_army_count |-> 100000, timestep |-> 100000, priority |-> 2]

\* spaces.MultiDiscrete([2, dims[0], dims[1], 4, 2])
ActionSpace(dims) == [nvec |-> <<2, dims[1], dims[2], 4, 2>>]

\* the grid dimensions a descriptor was built for
DescriptorDims(method, space) ==
    IF method = "observation_space" THEN space.shape ELSE <<space.nvec[2], space.nvec[3]>>

\* the descriptor each method builds for the dimensions
BuildSpace(method, dims) ==
    IF method = "observation_space" THEN ObservationSpace(dims) ELSE ActionSpace(dims)

\* the body both methods share, behind their caches
SpaceQuery(method, cache, agent) ==
    /\ callCount < MaxCalls
    /\ callCount' = callCount + 1
    /\ UNCHANGED <<agents, game, prior_observations, replay, recorders, rng, truncation,
                   reward_fn, stepCount, explicitObs, padding>>
    /\ LET answer(space) ==
               [NoResult EXCEPT !.op = method, !.agent = agent, !.space = Some(space)]
           failure(err) == [NoResult EXCEPT !.op = method, !.err = err, !.agent = agent]
           remember(space) ==
               IF agent \in DOMAIN firstSpace[method] THEN firstSpace
               ELSE [firstSpace EXCEPT ![method] = Put(@, agent, space)]
       IN  IF CacheHit(cache, agent)
           THEN /\ result' = answer(cache[agent])
                /\ firstSpace' = remember(cache[agent])
                /\ cache' = cache
           ELSE IF ~KnownAgent(agent)
           THEN /\ result' = failure("AssertionError")
                /\ UNCHANGED <<cache, firstSpace>>
           ELSE IF DimsRaise(padding, game)
           THEN /\ result' = failure("AttributeError")
                /\ UNCHANGED <<cache, firstSpace>>
           ELSE LET space == BuildSpace(method, SpaceDims(padding, game))
                IN  /\ result' = answer(space)
                    /\ firstSpace' = remember(space)
                    /\ cache' = Put(cache, agent, space)

observation_space(agent) ==
    /\ SpaceQuery("observation_space", obs_cache, agent)
    /\ UNCHANGED act_cache

action_space(agent) ==
    /\ SpaceQuery("action_space", act_cache, agent)
    /\ UNCHANGED obs_cache

----------------------------------------------------------------------------

Next ==
    \/ \E seed \in Seeds, options \in ResetOptions : Reset(seed, options)
    \/ \E actions \in JointActions : Step(actions)

Spec == Init /\ [][Next]_vars

\* the controller with its space queries, between resets that do not
\* record and steps that submit an action for every agent
NextSpaces ==
    \/ \E seed \in Seeds, options \in {o \in ResetOptions : IsNone(o.replay_file)} :
          Reset(seed, options)
    \/ \E actions \in [AgentSet(possible_agents) -> Actions] : Step(actions)
    \/ \E agent \in QueryAgents : observation_space(agent)
    \/ \E agent \in QueryAgents : action_space(agent)

SpecSpaces == InitSpaces /\ [][NextSpaces]_vars

----------------------------------------------------------------------------
(* Properties *)

\* a call was made in this step (every call counts itself)
Called(op) == callCount' = callCount + 1 /\ result'.op = op

StepReturned == result.op = "step" /\ result.err = "none"

\* C1: after every reset, the first step call yields reward 0.0 for every
\* active agent and does not invoke the reward function at all.
C1_FirstStepZeroReward ==
    (result.op = "step" /\ result.err # "AttributeError" /\ result.stepIndex = 0) =>
        /\ result.calls = <<>>
        /\ result.err = "none"
        /\ \A a \in result.activeAtStart : result.rewards[a] = 0

\* C2: a step whose joint action has no entry for some active agent fails
\* with MissingAction, does not advance the engine and leaves activeAgents
\* and the rest of the episode state as they were.
C2_MissingActionRejected ==
    [][(Called("step") /\ ~IsNone(game) /\ result'.missing # {}) =>
          /\ result'.err = "MissingAction"
          /\ game' = game
          /\ agents' = agents
          /\ prior_observations' = prior_observations
          /\ recorders' = recorders]_vars

\* C3: once a step has emptied activeAgents, every further step before the
\* next reset fails with a state-misuse error: no engine transition, no
\* recording, no finalize, no result tuple.
C3_StepAfterEndRejected ==
    [][(Called("step") /\ ~IsNone(game) /\ agents = <<>>) =>
          /\ result'.err = "StateMisuse"
          /\ game' = game
          /\ recorders' = recorders]_vars

\* C4: with a turn limit N the returned truncated flag is false after every
\* step that leaves the turn counter below N and true after every step that
\* leaves it at or above N, activeAgents is empty after a truncated step and
\* not emptied by a step that neither truncates nor terminates; without a
\* turn limit truncated is always false.
C4_TruncatedAtLimit ==
    StepReturned =>
        /\ IsNone(truncation) => ~result.truncated.value
        /\ ~IsNone(truncation) =>
              (result.truncated.value <=> Get(game).time >= Get(truncation))
        /\ result.truncated.value => agents = <<>>
        /\ (~result.truncated.value /\ ~result.terminated.value
               /\ result.activeAtStart # {}) => agents # <<>>

\* a step at turn N = 2, after a first step below the limit, truncates a
\* game nobody has won and empties the agent list
C4_Witness ==
    /\ StepReturned
    /\ truncation = Some(2)
    /\ Get(game).time = 2
    /\ result.stepIndex = 1
    /\ result.truncated.value
    /\ ~result.terminated.value
    /\ result.activeAtStart = AgentSet(possible_agents)
    /\ agents = <<>>

\* C5: once an engine exists, activeAgents is the full configured list or
\* empty, never a proper non-empty part of it; a step that returns
\* terminated or truncated leaves it empty, a step that returns neither
\* leaves it full.
C5_AllOrNone ==
    ~IsNone(game) =>
        /\ agents \in {possible_agents, <<>>}
        /\ (StepReturned /\ (result.terminated.value \/ result.truncated.value))
              => agents = <<>>
        /\ (StepReturned /\ ~result.terminated.value /\ ~result.truncated.value)
              => agents = possible_agents

\* a step of a full agent list on which the game is won empties the list
C5_Witness ==
    /\ StepReturned
    /\ result.terminated.value
    /\ ~result.truncated.value
    /\ result.activeAtStart = AgentSet(possible_agents)
    /\ agents = <<>>

\* C6: a recorder opened by a reset receives one append at the reset, one
\* append per step call made while the episode is active, and exactly one
\* finalize, on the step that ends the episode; nothing reaches it afterwards.
C6_RecorderCalls ==
    [][/\ \A i \in DOMAIN recorders' \ DOMAIN recorders :
             Len(recorders'[i].states) = 1 /\ recorders'[i].stores = 0
       /\ \A i \in DOMAIN recorders :
             /\ recorders'[i].stores <= 1
             /\ recorders[i].stores >= 1 => recorders'[i] = recorders[i]
             /\ (Called("step") /\ replay = Some(i) /\ agents # <<>>
                   /\ result'.missing = {}) =>
                   /\ Len(recorders'[i].states) = Len(recorders[i].states) + 1
                   /\ recorders'[i].stores = IF agents' = <<>> THEN 1 ELSE 0]_vars

\* C7: a successful step returns observations, rewards, terminated,
\* truncated and infos with an entry for every agent active at the start of
\* the call; terminated and truncated are per-agent mappings.
C7_PerAgentResults ==
    StepReturned =>
        /\ result.activeAtStart \subseteq DOMAIN result.observations
        /\ result.activeAtStart \subseteq DOMAIN result.rewards
        /\ result.activeAtStart \subseteq DOMAIN result.infos
        /\ result.terminated.kind = "dict"
        /\ result.activeAtStart \subseteq result.terminated.keys
        /\ result.truncated.kind = "dict"
        /\ result.activeAtStart \subseteq result.truncated.keys

\* C8: a successful reset, from any controller state, sets activeAgents to
\* the configured agents in configured order, binds a fresh engine in place
\* of the previous one, and returns that engine's observation and an empty
\* info record for every configured agent.
C8_ResetRestores ==
    [][(Called("reset") /\ result'.err = "none") =>
          /\ agents' = possible_agents
          /\ ~IsNone(game')
          /\ game' # game
          /\ ~IsNone(game) => Get(game').id > Get(game).id
          /\ Get(game').time = 0
          /\ ~is_done(Get(game'))
          /\ Get(game').agents = possible_agents
          /\ result'.observations =
                [a \in AgentSet(possible_agents) |-> agent_observation(Get(game'), a)]
          /\ result'.infos = [a \in AgentSet(possible_agents) |-> EmptyMap]]_vars

\* a reset issued after an episode has ended (no agent was active) has
\* replaced the engine and restored the agent list
C8_Witness ==
    /\ result.op = "reset"
    /\ result.err = "none"
    /\ result.activeAtStart = {}
    /\ agents = possible_agents
    /\ Get(game).id > 1
    /\ Get(game).time = 0

\* C9: a reset given a malformed explicit grid fails with InvalidGrid and
\* leaves activeAgents, the engine, the recorder and priorObservations as
\* they were before the call.
C9_FailedResetLeavesState ==
    [][(Called("reset") /\ ~IsNone(result'.grid) /\ ~WellFormed(Get(result'.grid))) =>
          /\ result'.err = "InvalidGrid"
          /\ agents' = agents
          /\ game' = game
          /\ replay' = replay
          /\ recorders' = recorders
          /\ prior_observations' = prior_observations]_vars

\* C10: a reset with an explicit grid leaves the factory's random source as
\* it was, and all resets with the same explicit grid return the same
\* initial observations whatever their seeds.
C10_ExplicitGridIgnoresSeed ==
    /\ [](\A t \in GridTexts : \A x, y \in explicitObs[t] :
             x.observations = y.observations)
    /\ [][(Called("reset") /\ ~IsNone(result'.grid)) => rng' = rng]_vars

\* two resets with the same explicit grid and different seeds have happened
C10_Witness ==
    \E t \in GridTexts : \E x, y \in explicitObs[t] :
        /\ x.seed # y.seed
        /\ result.op = "reset"
        /\ result.err = "none"
        /\ result.grid = Some(t)
        /\ rng = FactoryRng

\* C13: a reset issued while the episode of an open recorder has not ended
\* abandons that recorder: the reset does not finalize it or append to it
\* and unbinds it, and from then on no call changes it, whether or not the
\* reset opened a new recorder.
C13_AbandonedRecorder ==
    [][\A i \in DOMAIN recorders :
          recorders[i].stores = 0 =>
             /\ (Called("reset") /\ result'.err = "none" /\ replay = Some(i)) =>
                   /\ recorders'[i] = recorders[i]
                   /\ replay' # Some(i)
             /\ replay # Some(i) => recorders'[i] = recorders[i]]_vars

\* the first recorder was superseded before its episode ended by a reset
\* that opened a second one; the new episode has since ended and finalized
\* the second recorder, the first still holds its one snapshot, unfinalized
C13_Witness ==
    /\ Len(recorders) = 2
    /\ replay = Some(2)
    /\ StepReturned
    /\ recorders[2].stores = 1
    /\ recorders[1].stores = 0
    /\ Len(recorders[1].states) = 1

\* C14: priorObservations is unset exactly between a reset and the first
\* step after it; after a step it holds an entry for every agent active at
\* the start of that step; a reset always returns it to unset.
C14_PriorUnsetAfterReset ==
    ~IsNone(game) =>
        /\ (result.op = "reset" /\ result.err = "none") => IsNone(prior_observations)
        /\ IsNone(prior_observations) <=> stepCount = 0
        /\ StepReturned =>
              /\ ~IsNone(prior_observations)
              /\ result.activeAtStart \subseteq DOMAIN Get(prior_observations)

\* C15: on a step that follows a step of the same episode, the reward
\* function is applied exactly once per active agent, to the observation
\* the preceding step returned for it, the action submitted for it in this
\* call and the observation this step produced for it; that is its reward.
C15_RewardFromPrecedingStep ==
    [][\A actions \in JointActions :
          (/\ Step(actions)
           /\ result.op = "step" /\ result.err = "none"
           /\ result'.err = "none"
           /\ agents # <<>>) =>
             /\ result'.calls =
                   [i \in 1..Len(agents) |->
                       [agent |-> agents[i],
                        prior_obs |-> result.observations[agents[i]],
                        prior_action |-> actions[agents[i]],
                        obs |-> result'.observations[agents[i]]]]
             /\ \A a \in AgentSet(agents) :
                   result'.rewards[a] =
                      CallRewardFn(reward_fn, result.observations[a], actions[a],
                                   result'.observations[a])]_vars

\* the third step of an episode has paid a reward computed from the second
\* step's observation
C15_Witness ==
    /\ StepReturned
    /\ result.stepIndex = 2
    /\ result.activeAtStart = AgentSet(possible_agents)
    /\ Len(result.calls) = 2
    /\ result.calls[1].prior_obs.timestep = 2
    /\ result.calls[1].obs.timestep = 3

\* C17: the snapshot a step appends reads as the engine state after that
\* step's engine transition, and no later call changes what any snapshot
\* held by a recorder reads as.
C17_SnapshotsIndependent ==
    [][/\ \A i \in DOMAIN recorders : \A k \in DOMAIN recorders[i].states :
             Read(recorders'[i].states[k], game') = Read(recorders[i].states[k], game)
       /\ (Called("step") /\ ~IsNone(replay) /\ result'.err = "none") =>
             LET before == recorders[Get(replay)].states
                 after == recorders'[Get(replay)].states
             IN  /\ Len(after) = Len(before) + 1
                 /\ Read(after[Len(after)], game') = Channels(Get(game'))]_vars

\* a recorder holds the snapshot of an earlier step, and the engine has
\* moved on since without the snapshot following it
C17_Witness ==
    /\ StepReturned
    /\ ~IsNone(replay)
    /\ Len(recorders[Get(replay)].states) = 3
    /\ Read(recorders[Get(replay)].states[2], game) # Channels(Get(game))
    /\ Read(recorders[Get(replay)].states[2], game).armies = 1
    /\ Get(game).armies = 2

\* C18: on the step that ends an episode with an open recorder the final
\* snapshot is appended before the recorder is finalized: the persisted
\* sequence ends with the terminal state and has one entry for the reset
\* plus one per step of the episode.
C18_FinalSnapshotBeforeFinalize ==
    [][\A i \in DOMAIN recorders :
          (/\ Called("step")
           /\ replay = Some(i)
           /\ recorders[i].stores = 0
           /\ recorders'[i].stores = 1) =>
             LET p == recorders'[i].persisted
             IN  /\ Len(p) = 1 + stepCount'
                 /\ Read(p[Len(p)], game') = Channels(Get(game'))
                 /\ is_done(Get(game')) \/ Truncated(truncation, Get(game').time)]_vars

\* a game won on its second step has been persisted as three states, the
\* last of which shows the winner
C18_Witness ==
    /\ StepReturned
    /\ result.terminated.value
    /\ ~IsNone(replay)
    /\ recorders[Get(replay)].stores = 1
    /\ Len(recorders[Get(replay)].persisted) = 3
    /\ ~IsNone(recorders[Get(replay)].persisted[3].value.winner)
    /\ IsNone(recorders[Get(replay)].persisted[2].value.winner)

\* C19: a reset without a recording name leaves the controller without a
\* recorder, whatever an earlier episode had, and the steps that follow
\* reach no recorder at all.
C19_NoRecorderWithoutName ==
    [][/\ (Called("reset") /\ result'.err = "none" /\ Len(recorders') = Len(recorders)) =>
             /\ IsNone(replay')
             /\ recorders' = recorders
       /\ Called("step") => replay' = replay
       /\ (Called("step") /\ IsNone(replay)) => recorders' = recorders]_vars

\* an episode was recorded to its end, a reset without a recording name
\* followed, and a step of the new episode has left the old recording alone
C19_Witness ==
    /\ StepReturned
    /\ result.stepIndex = 0
    /\ IsNone(replay)
    /\ Len(recorders) = 1
    /\ recorders[1].stores = 1
    /\ Len(recorders[1].states) = 2
    /\ Get(game).id > 1

SpaceMethods == {"observation_space", "action_space"}

SpaceReturned == result.op \in SpaceMethods /\ result.err = "none"

C12_UnknownAgentRejected ==
    [][((Called("observation_space") \/ Called("action_space"))
          /\ result'.agent \notin AgentSet(possible_agents)) =>
             /\ result'.err = "AssertionError"
             /\ IsNone(result'.space)
             /\ UNCHANGED <<agents, game, prior_observations, replay, recorders, rng,
                            stepCount, obs_cache, act_cache>>]_vars

\* a stranger was turned away before any reset, with a descriptor of a
\* configured agent already cached
C12_Witness ==
    /\ result.op = "action_space"
    /\ result.agent = "Z"
    /\ result.err = "AssertionError"
    /\ IsNone(game)
    /\ "A" \in DOMAIN act_cache
    /\ "Z" \notin DOMAIN act_cache

\* C16: without padding a descriptor returned for a configured agent has
\* the dimensions of the current episode's grid, also after a reset that
\* changed them; with padding it has the factory's maximum dimensions and
\* the query succeeds in every state, before the first reset too.
C16_DescriptorMatchesGrid ==
    (result.op \in SpaceMethods /\ result.agent \in AgentSet(possible_agents)) =>
        IF padding
        THEN /\ result.err = "none"
             /\ DescriptorDims(result.op, Get(result.space)) = max_grid_dims
        ELSE result.err = "none" =>
                DescriptorDims(result.op, Get(result.space)) = Get(game).grid.dims

====
